---------------------------- MODULE Spec2Model ----------------------------
(***************************************************************************)
(* A model of claude-monitor's sampling engine:                            *)
(*   - the HistoryBuffer ring buffer (package monitor, history file),      *)
(*   - ProcessMonitor.GetProcesses (internal/monitor/process.go): the CPU  *)
(*     estimator, the start-time sort and the duplicate-name suffixes.     *)
(*                                                                         *)
(* Go slices are 0-indexed; arrays are modelled as functions over          *)
(* 0..n-1 and returned slices as TLA+ sequences.  float64 values are       *)
(* modelled as exact rationals <<num, den>> (rounding is not modelled).    *)
(***************************************************************************)
EXTENDS Integers, Sequences, FiniteSets, TLC

VARIABLES
    data,          \* HistoryBuffer.data  : [0..MaxSamples-1 -> HistoryPoint]
    head,          \* HistoryBuffer.head  : write cursor
    count,         \* HistoryBuffer.count : occupied slots
    added,         \* history: the points passed to Add since the last Clear
    everCleared,   \* history: TRUE once Clear has been called
    ret,           \* the value returned by the last HistoryBuffer call
    prevRet,       \* history: the value returned by the call before it
    prevCPUTimes,  \* ProcessMonitor.prevCPUTimes : pid -> cpuTime
    prevSample,    \* ProcessMonitor.prevSample (ms)
    now,           \* the wall clock (ms)
    table,         \* the content of /proc that the last poll read
    poll,          \* the result of the last GetProcesses call, with its inputs
    nPolls,        \* number of polls made so far
    before,        \* history: the result of the GetProcesses call before the last
    missed,        \* history: pids once tracked that a later poll did not find
    comeback,      \* history: the pids of missed that the last poll found again
    pc,            \* goroutine -> the place it has reached in its code
    mu,            \* ProcessMonitor.mu : its holder, or "free"
    rw,            \* HistoryBuffer.mu : its writer (or "free") and its readers
    local,         \* goroutine -> the local variables of its running call
    log            \* history: the polls completed, in the order of their return

hbVars == <<data, head, count, added, everCleared, ret, prevRet>>
pmVars == <<prevCPUTimes, prevSample, now, table, poll, nPolls>>
histVars == <<before, missed, comeback>>
concVars == <<pc, mu, rw, local, log>>
vars   == <<data, head, count, added, everCleared, ret, prevRet,
            prevCPUTimes, prevSample, now, table, poll, nPolls,
            before, missed, comeback, pc, mu, rw, local, log>>

-----------------------------------------------------------------------------
(* Generic helpers *)

Min(a, b) == IF a < b THEN a ELSE b

\* The last n elements of sequence s (all of s when n >= Len(s)).
LastN(s, n) == SubSeq(s, Len(s) - Min(n, Len(s)) + 1, Len(s))

\* Go's arr[lo:hi] on an array held as a function over 0..n-1.
Slice(arr, lo, hi) == [i \in 1..(hi - lo) |-> arr[lo + i - 1]]

-----------------------------------------------------------------------------
(* HistoryBuffer *)

\* Capacity of the ring buffer.  The program uses 360
\* (HistoryDuration / SampleInterval); the model scales it down.
MaxSamples == 3

\* Add is called at most MaxSamples + ExtraAdds times between two Clears.
ExtraAdds == 2

\* Timestamps of the points offered to Add.
Stamps == {1, 2}

\* The zero value of HistoryPoint: what make([]HistoryPoint, n) holds.
ZeroPoint == [Timestamp |-> 0, Temperature |-> 0, Processes |-> <<>>]

SamplePoints ==
    {[Timestamp |-> t, Temperature |-> 0, Processes |-> <<>>] : t \in Stamps}

NewHistoryBuffer == [i \in 0..(MaxSamples - 1) |-> ZeroPoint]

\* Faulty variant: the cursor stays where it is.
AddHeadStuck(h) == h
\* Add, line 53: the cursor advances circularly.
AddHead(h) == (h + 1) % MaxSamples

\* Faulty variant: the count is not capped at the capacity.
AddCountNoCap(c) == c + 1
\* Add, lines 54-56: the count grows up to the capacity.
AddCount(c) == IF c < MaxSamples THEN c + 1 ELSE c

\* Faulty variant: a full buffer is read from slot 0, not from the cursor.
GetAllNoSplice(d, h, c) == IF c = 0 THEN <<>> ELSE Slice(d, 0, c)
\* GetAll: the chronological read-out of (d, h, c).
GetAll(d, h, c) ==
    IF c = 0 THEN <<>>
    ELSE IF c < MaxSamples
         THEN Slice(d, 0, c)
         ELSE Slice(d, h, MaxSamples) \o Slice(d, 0, h)

\* Faulty variant: the first n points are returned, not the last.
GetLastHead(all, n) == IF Len(all) <= n THEN all ELSE SubSeq(all, 1, n)
\* GetLast: the tail of GetAll's result.
GetLast(all, n) ==
    IF Len(all) <= n THEN all
    ELSE SubSeq(all, Len(all) - n + 1, Len(all))

NoRet == [op |-> "none", n |-> 0, points |-> <<>>, num |-> 0]

InitHB ==
    /\ data = NewHistoryBuffer
    /\ head = 0
    /\ count = 0
    /\ added = <<>>
    /\ everCleared = FALSE
    /\ ret = NoRet
    /\ prevRet = NoRet

Add(point) ==
    /\ Len(added) < MaxSamples + ExtraAdds
    /\ data' = [data EXCEPT ![head] = point]
    /\ head' = AddHead(head)
    /\ count' = AddCount(count)
    /\ added' = Append(added, point)
    /\ ret' = NoRet
    /\ prevRet' = ret
    /\ UNCHANGED everCleared

\* Faulty variant: a Clear that leaves the write cursor where it is.
ClearCountOnly ==
    /\ count' = 0
    /\ added' = <<>>
    /\ everCleared' = TRUE
    /\ ret' = NoRet
    /\ prevRet' = ret
    /\ UNCHANGED <<data, head>>

\* Clear: count and head are reset; the backing array is kept as it is.
Clear ==
    /\ count' = 0
    /\ head' = 0
    /\ added' = <<>>
    /\ everCleared' = TRUE
    /\ ret' = NoRet
    /\ prevRet' = ret
    /\ UNCHANGED data

\* Faulty variant: a GetAll that hands the samples over and empties the buffer.
CallGetAllDraining ==
    /\ ret' = [op |-> "GetAll", n |-> 0,
               points |-> GetAll(data, head, count), num |-> 0]
    /\ prevRet' = ret
    /\ count' = 0
    /\ head' = 0
    /\ UNCHANGED <<data, added, everCleared>>

\* handleHistory: one call of GetAll; its result is a fresh copy.
CallGetAll ==
    /\ ret' = [op |-> "GetAll", n |-> 0,
               points |-> GetAll(data, head, count), num |-> 0]
    /\ prevRet' = ret
    /\ UNCHANGED <<data, head, count, added, everCleared>>

CallGetLast(n) ==
    /\ ret' = [op |-> "GetLast", n |-> n,
               points |-> GetLast(GetAll(data, head, count), n), num |-> 0]
    /\ prevRet' = ret
    /\ UNCHANGED <<data, head, count, added, everCleared>>

CallCount ==
    /\ ret' = [op |-> "Count", n |-> 0, points |-> <<>>, num |-> count]
    /\ prevRet' = ret
    /\ UNCHANGED <<data, head, count, added, everCleared>>


NextHB ==
    \/ \E point \in SamplePoints : Add(point) /\ UNCHANGED <<pmVars, histVars, concVars>>
    \/ Clear /\ UNCHANGED <<pmVars, histVars, concVars>>
    \/ CallGetAll /\ UNCHANGED <<pmVars, histVars, concVars>>
    \/ \E n \in 0..(MaxSamples + 1) : CallGetLast(n) /\ UNCHANGED <<pmVars, histVars, concVars>>
    \/ CallCount /\ UNCHANGED <<pmVars, histVars, concVars>>

-----------------------------------------------------------------------------
(* Arithmetic of the estimator *)

RECURSIVE GCD(_, _)
GCD(a, b) == IF b = 0 THEN a ELSE GCD(b, a % b)

Abs(x) == IF x < 0 THEN -x ELSE x

\* A float64 value, held exactly as a reduced fraction <<num, den>>, den > 0.
Rat(n, d) ==
    LET g == GCD(Abs(n), d)
    IN  IF n = 0 THEN <<0, 1>> ELSE <<n \div g, d \div g>>

RatMul(x, y) == Rat(x[1] * y[1], x[2] * y[2])
RatDiv(x, y) == Rat(x[1] * y[2], x[2] * y[1])    \* only used with y > 0
RatLess(x, y) == x[1] * y[2] < y[1] * x[2]
RatInt(n) == <<n, 1>>

\* Width of the cpuTime counters.  They are uint64 in the program; the model
\* keeps the wrap-around of unsigned subtraction at a smaller width.
UintBits == 16
UintMod == 2 ^ UintBits

\* Unsigned subtraction and addition as Go computes them.
SubU(a, b) == (a - b) % UintMod
AddU(a, b) == (a + b) % UintMod

\* NewProcessMonitor: clkTck, clock ticks per second.
ClkTck == 100

\* GetProcesses, lines 56-60: seconds since the previous poll, at least 0.1.
\* Times are in milliseconds.
Elapsed(nowT, prevT) ==
    LET e == Rat(nowT - prevT, 1000)
    IN  IF RatLess(e, <<1, 10>>) THEN <<1, 10>> ELSE e

cpuTimeZero == [utime |-> 0, stime |-> 0]

\* GetProcesses, lines 126-127: the percentage before it is clamped.
RawPercent(ct, prev, elapsed) ==
    LET totalDelta == AddU(SubU(ct.utime, prev.utime), SubU(ct.stime, prev.stime))
    IN  RatMul(RatDiv(RatDiv(RatInt(totalDelta), RatInt(ClkTck)), elapsed),
               RatInt(100))

\* Faulty variant: the upper clamp is missing.
ClampNoUpper(p) == IF RatLess(p, RatInt(0)) THEN RatInt(0) ELSE p
\* GetProcesses, lines 128-133: the clamp to [0, 100].
Clamp(p) ==
    IF RatLess(p, RatInt(0)) THEN RatInt(0)
    ELSE IF RatLess(RatInt(100), p) THEN RatInt(100)
    ELSE p

\* Faulty variant: an untracked pid is measured against zero counters.
CPUPercentNoFirstCheck(prevMap, pid, ct, elapsed) ==
    LET prev == IF pid \in DOMAIN prevMap THEN prevMap[pid] ELSE cpuTimeZero
    IN  Clamp(RawPercent(ct, prev, elapsed))
\* GetProcesses, lines 124-134: CPUPercent of process pid, whose counters are
\* ct, against the counters prevMap kept from the previous poll.
CPUPercent(prevMap, pid, ct, elapsed) ==
    IF pid \in DOMAIN prevMap
    THEN Clamp(RawPercent(ct, prevMap[pid], elapsed))
    ELSE RatInt(0)

-----------------------------------------------------------------------------
(* The /proc readers *)

(* The content of /proc is a record [ok, procs]: ok says whether            *)
(* os.ReadDir("/proc") succeeds, and procs maps each numeric directory      *)
(* (a pid) to what reading its files yields in this poll:                   *)
(*   comm  : [ok, val]   val the file's text as a sequence of tokens        *)
(*   cwd   : [ok, val]   val the link's target, <<"/", seg, ..., seg>>      *)
(*   stat  : [ok, utime, stime, starttime]   (ticks)                        *)
(*   statm : [ok, rss]   (pages)                                            *)
(* Entries that are not directories or not numeric are skipped by lines     *)
(* 73-80 and are left out of procs.                                         *)

Whitespace == {" ", "\n", "\t"}

RECURSIVE TrimLeft(_)
TrimLeft(s) ==
    IF s # <<>> /\ Head(s) \in Whitespace THEN TrimLeft(Tail(s)) ELSE s

RECURSIVE TrimRight(_)
TrimRight(s) ==
    IF s # <<>> /\ s[Len(s)] \in Whitespace
    THEN TrimRight(SubSeq(s, 1, Len(s) - 1))
    ELSE s

\* strings.TrimSpace on a tokenised text.
TrimSpace(s) == TrimRight(TrimLeft(s))

\* Faulty variant: every process whose comm can be read matches.
isClaudeAnyComm(e) == e.comm.ok

\* isClaude: comm is readable and is exactly "claude" once trimmed.
isClaude(e) == e.comm.ok /\ TrimSpace(e.comm.val) = <<"claude">>


\* os.Getpagesize().
PageSize == 4096

\* getMemoryMB: resident pages times the page size, in MiB; 0 on any failure.
getMemoryMB(e) ==
    IF e.statm.ok THEN Rat(e.statm.rss * PageSize, 1024 * 1024) ELSE RatInt(0)

\* getCPUTime: utime and stime of stat; the zero cpuTime on any failure.
getCPUTime(e) ==
    IF e.stat.ok THEN [utime |-> e.stat.utime, stime |-> e.stat.stime]
    ELSE cpuTimeZero

\* getStartTime, bootTime: time.Now().Unix() - int64(uptime), in epoch
\* seconds. The clock and the uptime are truncated separately, so the
\* difference is one of two adjacent seconds, read by read.
BootTime == 1000
BootTimes == {BootTime, BootTime + 1}

\* getStartTime: the boot time derived at this read plus starttime converted
\* from ticks to whole seconds (clkTck is 100.0 there); 0 on any failure.
getStartTime(e) ==
    IF e.stat.ok THEN e.stat.boot + (e.stat.starttime \div 100) ELSE 0

\* filepath.Base on a path <<"/", seg, ..., seg>> ("" is <<>>).
Base(path) ==
    IF path = <<>> THEN "."
    ELSE IF Len(path) = 1 THEN "/"
    ELSE path[Len(path)]

\* Faulty variant: every ordinal ends in "th".
getOrdinalSuffixTh(n) == ToString(n) \o "th"
\* getOrdinalSuffix.
getOrdinalSuffix(n) ==
    CASE n = 2 -> "2nd"
      [] n = 3 -> "3rd"
      [] OTHER -> ToString(n) \o "th"

\* The decimal digits of n: the name of directory /proc/n.
RECURSIVE Digits(_)
Digits(n) == IF n < 10 THEN <<n>> ELSE Append(Digits(n \div 10), n % 10)

\* Byte-wise string order on two digit sequences.
RECURSIVE LexLess(_, _)
LexLess(a, b) ==
    IF a = <<>> THEN b # <<>>
    ELSE IF b = <<>> THEN FALSE
    ELSE IF Head(a) # Head(b) THEN Head(a) < Head(b)
    ELSE LexLess(Tail(a), Tail(b))

\* os.ReadDir returns the entries sorted by filename: the pids of S in that
\* order.
RECURSIVE ReadDirOrder(_)
ReadDirOrder(S) ==
    IF S = {} THEN <<>>
    ELSE LET first == CHOOSE p \in S :
                          \A q \in S \ {p} : LexLess(Digits(p), Digits(q))
         IN  <<first>> \o ReadDirOrder(S \ {first})

-----------------------------------------------------------------------------
(* ProcessMonitor.GetProcesses *)

EmptyMap == [p \in {} |-> cpuTimeZero]

\* Lines 87-106: the ClaudeProcess built for pid from its entry e.
NewProc(pid, e) ==
    [PID        |-> pid,
     Name       |-> IF e.cwd.ok THEN Base(e.cwd.val) ELSE "claude",
     WorkingDir |-> IF e.cwd.ok THEN e.cwd.val ELSE <<>>,
     CPUPercent |-> RatInt(0),
     MemoryMB   |-> getMemoryMB(e),
     StartTime  |-> getStartTime(e)]

\* Lines 72-112, the first pass: rawProcesses, in the order of the entries.
FirstPass(procs) ==
    LET order  == ReadDirOrder(DOMAIN procs)
        Match(pid) == isClaude(procs[pid])
        pids   == SelectSeq(order, Match)
    IN  [i \in 1..Len(pids) |->
            [proc |-> NewProc(pids[i], procs[pids[i]]),
             cpuTime |-> getCPUTime(procs[pids[i]])]]

\* Lines 63 and 103: currentCPUTimes.
CurrentCPUTimes(procs) ==
    [pid \in {p \in DOMAIN procs : isClaude(procs[p])} |-> getCPUTime(procs[pid])]

\* Lines 115-117: the comparison given to sort.Slice.
Less(a, b) == a.proc.StartTime < b.proc.StartTime

\* Insertion sort, as sort.Slice runs it on slices shorter than 12: an
\* element moves left while it is less than its left neighbour.
RECURSIVE Insert(_, _)
Insert(s, x) ==
    IF s = <<>> \/ ~Less(x, s[Len(s)]) THEN Append(s, x)
    ELSE Append(Insert(SubSeq(s, 1, Len(s) - 1), x), s[Len(s)])

RECURSIVE InsertionSort(_)
InsertionSort(s) ==
    IF s = <<>> THEN <<>>
    ELSE Insert(InsertionSort(SubSeq(s, 1, Len(s) - 1)), s[Len(s)])

IsSortedBy(s) == \A i, j \in 1..Len(s) : i < j => ~Less(s[j], s[i])

\* Faulty variant: equal elements come out in any order on every call.
SortOutcomesAnyTieOrder(raw) ==
    {[i \in 1..Len(raw) |-> raw[f[i]]] :
        f \in {g \in [1..Len(raw) -> 1..Len(raw)] :
                   /\ \A i, j \in 1..Len(raw) : i # j => g[i] # g[j]
                   /\ IsSortedBy([i \in 1..Len(raw) |-> raw[g[i]]])}}
\* The orders sort.Slice may leave the slice in.  sort.Slice is not stable:
\* on 12 elements or more any order of equal elements may come out.
SortOutcomes(raw) ==
    IF Len(raw) < 12 THEN {InsertionSort(raw)}
    ELSE {[i \in 1..Len(raw) |-> raw[f[i]]] :
             f \in {g \in [1..Len(raw) -> 1..Len(raw)] :
                        /\ \A i, j \in 1..Len(raw) : i # j => g[i] # g[j]
                        /\ IsSortedBy([i \in 1..Len(raw) |-> raw[g[i]]])}}

\* Lines 136-143: the name of the n-th process that has base name baseName.
DisplayName(baseName, n) ==
    IF n > 1 THEN baseName \o " (" \o getOrdinalSuffix(n) \o ")" ELSE baseName

\* Lines 120-146, the second pass over raws[i..]: CPU% and names.
RECURSIVE SecondPass(_, _, _, _, _, _)
SecondPass(raws, i, nameCount, processes, prevMap, elapsed) ==
    IF i > Len(raws) THEN processes
    ELSE
      LET rp == raws[i]
          baseName == rp.proc.Name
          n == 1 + (IF baseName \in DOMAIN nameCount THEN nameCount[baseName] ELSE 0)
          counted == [b \in DOMAIN nameCount \cup {baseName} |->
                         IF b = baseName THEN n ELSE nameCount[b]]
          proc == [rp.proc EXCEPT
                     !.CPUPercent = CPUPercent(prevMap, rp.proc.PID, rp.cpuTime, elapsed),
                     !.Name = DisplayName(baseName, n)]
      IN  SecondPass(raws, i + 1, counted, Append(processes, proc), prevMap, elapsed)

\* Lines 152-157: entries of m whose pid is not in cur are deleted.
CleanUp(m, cur) == [pid \in DOMAIN m \cap DOMAIN cur |-> m[pid]]

\* Faulty variant: the new counters are merged into the old map.
NextPrevMerged(old, cur) ==
    [pid \in DOMAIN old \cup DOMAIN cur |->
        IF pid \in DOMAIN cur THEN cur[pid] ELSE old[pid]]
\* Lines 148-157: the map stored for the next poll.
NextPrev(old, cur) == CleanUp(cur, cur)

\* Polls are counted up to MaxPolls.
MaxPolls == 3

\* Polls made while processes exit.
ChurnPolls == 2

NoPoll ==
    [called |-> FALSE, err |-> FALSE, processes |-> <<>>,
     prevBefore |-> EmptyMap, elapsed |-> RatInt(0), since |-> 0, at |-> 0]

\* Faulty variant: a poll that also fails when one process cannot be read.
ReadDirFailedOrEntryUnreadable(tbl) ==
    \/ ~tbl.ok
    \/ \E pid \in DOMAIN tbl.procs : ~tbl.procs[pid].comm.ok

\* os.ReadDir("/proc") returned an error: the only early return of a poll.
ReadDirFailed(tbl) == ~tbl.ok

\* Faulty variant: a failed poll that forgets the counters and restarts the
\* sampling interval.
ReturnErrorReset ==
    /\ poll' = [called |-> TRUE, err |-> TRUE, processes |-> <<>>,
                prevBefore |-> prevCPUTimes, elapsed |-> RatInt(0),
                since |-> prevSample, at |-> now']
    /\ prevCPUTimes' = EmptyMap
    /\ prevSample' = now'

\* Lines 52-54: the return on a failed os.ReadDir, before anything of the
\* ProcessMonitor is read or written.
ReturnError ==
    /\ poll' = [called |-> TRUE, err |-> TRUE, processes |-> <<>>,
                prevBefore |-> prevCPUTimes, elapsed |-> RatInt(0),
                since |-> prevSample, at |-> now']
    /\ UNCHANGED <<prevCPUTimes, prevSample>>

\* One call of GetProcesses, gap milliseconds after the previous one, while
\* /proc holds tbl.
GetProcesses(tbl, gap) ==
    /\ nPolls < MaxPolls
    /\ nPolls' = nPolls + 1
    /\ now' = now + gap
    /\ table' = tbl
    /\ IF ReadDirFailed(tbl)
       THEN ReturnError
       ELSE LET elapsed == Elapsed(now', prevSample)
            IN  \E sorted \in SortOutcomes(FirstPass(tbl.procs)) :
                  /\ poll' = [called |-> TRUE, err |-> FALSE,
                              processes |->
                                SecondPass(sorted, 1, <<>>, <<>>, prevCPUTimes, elapsed),
                              prevBefore |-> prevCPUTimes, elapsed |-> elapsed,
                              since |-> prevSample, at |-> now']
                  /\ prevCPUTimes' = NextPrev(prevCPUTimes, CurrentCPUTimes(tbl.procs))
                  /\ prevSample' = now'

-----------------------------------------------------------------------------
(* The contents of /proc the polls are run on *)

FileMissing == [ok |-> FALSE, val |-> <<>>]
CommClaude  == [ok |-> TRUE, val |-> <<"claude", "\n">>]
CommOther   == [ok |-> TRUE, val |-> <<"claude-helper", "\n">>]
StatMissing == [ok |-> FALSE, utime |-> 0, stime |-> 0, starttime |-> 0, boot |-> 0]
StatmMissing == [ok |-> FALSE, rss |-> 0]
StatmOf(pages) == [ok |-> TRUE, rss |-> pages]
Cwd(path) == [ok |-> TRUE, val |-> path]
\* A readable stat: utime, stime, starttime (ticks), and the boot time that
\* getStartTime derives when it reads this process.
StatAt(u, s, st, boot) ==
    [ok |-> TRUE, utime |-> u, stime |-> s, starttime |-> st, boot |-> boot]
Stat(u, s, st) == StatAt(u, s, st, BootTime)

Entry(comm, cwd, stat, statm) ==
    [comm |-> comm, cwd |-> cwd, stat |-> stat, statm |-> statm]

\* All contents of /proc whose pids are among pids and whose entries are
\* among entries.
TablesOver(pids, entries) ==
    {[ok |-> TRUE, procs |-> f] :
        f \in UNION {[S -> entries] : S \in SUBSET pids}}

ReadDirFails == [ok |-> FALSE, procs |-> <<>>]
EmptyTable == [ok |-> TRUE, procs |-> <<>>]

\* Wall-clock gaps between two polls (ms): a rapid re-poll and the 5 s tick.
Gaps == {50, 5000}

\* For the estimator: two pids; counters that rise, fall and wrap;
\* processes that do not match or vanish while they are read.
CpuPids == {2, 10}
CpuStats == {Stat(600, 400, 150), Stat(700, 450, 150), Stat(500, 650, 150)}
CpuEntries ==
    {Entry(CommClaude, Cwd(<<"/", "home", "user", "demo">>), st, StatmOf(25600)) :
        st \in CpuStats}
    \cup {Entry(CommClaude, FileMissing, StatMissing, StatmMissing),
          Entry(CommOther, Cwd(<<"/", "home", "user">>), Stat(5, 5, 150), StatmOf(512)),
          Entry(FileMissing, FileMissing, StatMissing, StatmMissing)}
CpuTables == TablesOver(CpuPids, CpuEntries) \cup {ReadDirFails}

\* For the naming: four pids, shared and distinct base names, an unreadable
\* working directory, equal and distinct start times.
NamePids == {2, 3, 10, 11}
NameCwds ==
    {Cwd(<<"/", "a", "proj">>), Cwd(<<"/", "b", "proj">>),
     Cwd(<<"/", "c", "other">>), FileMissing}
StartTicks == {120, 180, 250}
NameEntries ==
    {Entry(CommClaude, c, Stat(600, 400, st), StatmOf(25600)) :
        c \in NameCwds, st \in StartTicks}
NameTables == TablesOver(NamePids, NameEntries)

InitPM ==
    /\ prevCPUTimes = EmptyMap
    /\ prevSample = 0
    /\ now = 0
    /\ poll = NoPoll
    /\ nPolls = 0
    /\ before = NoPoll
    /\ missed = {}
    /\ comeback = {}

\* The buffer alone, under any interleaving of its operations.
\* No goroutine but the caller: every call runs from start to end.
FreeRW == [writer |-> "free", readers |-> {}]
InitSeq ==
    /\ pc = <<>>
    /\ mu = "free"
    /\ rw = FreeRW
    /\ local = <<>>
    /\ log = <<>>

InitBuffer == InitHB /\ InitPM /\ InitSeq /\ table = EmptyTable
SpecHB == InitBuffer /\ [][NextHB]_vars

\* The estimator: /proc changes arbitrarily between two polls.
NextCPU ==
    \E tbl \in CpuTables, gap \in Gaps :
        GetProcesses(tbl, gap) /\ UNCHANGED <<hbVars, histVars, concVars>>
SpecCPU == InitBuffer /\ [][NextCPU]_vars

\* The naming: /proc holds any of NameTables and is polled repeatedly.
InitNaming == InitHB /\ InitPM /\ InitSeq /\ table \in NameTables
NextNaming ==
    \E gap \in {5000} :
        GetProcesses(table, gap) /\ before' = poll
                                 /\ UNCHANGED <<hbVars, missed, comeback, concVars>>
SpecNaming == InitNaming /\ [][NextNaming]_vars

\* Working directories whose last segment looks like a name the poll makes
\* up itself: "proj (2nd)", and "claude", the name given when the working
\* directory cannot be read.
SegmentPids == {2, 3, 10}
SegmentCwds ==
    {Cwd(<<"/", "a", "proj">>), Cwd(<<"/", "b", "proj">>),
     Cwd(<<"/", "c", "proj (2nd)">>), Cwd(<<"/", "d", "claude">>), FileMissing}
SegmentEntries ==
    {Entry(CommClaude, c, Stat(600, 400, st), StatmOf(25600)) :
        c \in SegmentCwds, st \in {120, 250}}
SegmentTables == TablesOver(SegmentPids, SegmentEntries)
InitSegments == InitHB /\ InitPM /\ InitSeq /\ table \in SegmentTables
SpecSegments == InitSegments /\ [][NextNaming]_vars

\* Processes that come and go: two pids whose counters rise from one poll to
\* the next, that may not match, or be missing from /proc, in any poll.
ReturnEntries ==
    {Entry(CommClaude, Cwd(<<"/", "home", "user", "demo">>), st, StatmOf(25600)) :
        st \in {Stat(600, 400, 150), Stat(700, 450, 150)}}
    \cup {Entry(CommOther, Cwd(<<"/", "home", "user">>), Stat(5, 5, 150), StatmOf(512))}
ReturnTables == TablesOver(CpuPids, ReturnEntries) \cup {ReadDirFails}

\* A poll, with the record of the pids that were tracked and then not found
\* by a successful poll (missed), and of those found again by this one.
NextReturn ==
    \E tbl \in ReturnTables, gap \in {5000} :
        /\ GetProcesses(tbl, gap)
        /\ missed' = IF poll'.err THEN missed
                     ELSE (missed \cup DOMAIN prevCPUTimes)
                              \ {poll'.processes[i].PID : i \in 1..Len(poll'.processes)}
        /\ comeback' = IF poll'.err THEN {}
                       ELSE missed \cap {poll'.processes[i].PID : i \in 1..Len(poll'.processes)}
        /\ UNCHANGED <<hbVars, before, concVars>>
SpecReturn == InitBuffer /\ [][NextReturn]_vars

\* Processes that exit between two polls: three pids in directories that
\* share a base name or not, started in three different seconds.
ChurnPids == {2, 3, 10}
ChurnCwds == {Cwd(<<"/", "a", "proj">>), Cwd(<<"/", "c", "other">>)}
ChurnTicks == {50, 180, 250}
ChurnEntries ==
    {Entry(CommClaude, c, StatAt(600, 400, st, boot), StatmOf(25600)) :
        c \in ChurnCwds, st \in ChurnTicks, boot \in BootTimes}
ChurnTables == TablesOver(ChurnPids, ChurnEntries)

\* /proc after the processes of gone have exited; each survivor keeps its
\* working directory and its starttime, and boots[pid] is the boot time
\* getStartTime derives when it reads pid.
Survivors(tbl, gone, boots) ==
    [ok |-> TRUE,
     procs |-> [pid \in DOMAIN tbl.procs \ gone |->
                   [tbl.procs[pid] EXCEPT !.stat.boot = boots[pid]]]]

\* The first poll reads /proc as it is; before every later poll at most one
\* process exits.
InitChurn == InitHB /\ InitPM /\ InitSeq /\ table \in ChurnTables
NextChurn ==
    \/ /\ nPolls = 0
       /\ GetProcesses(table, 5000)
       /\ before' = poll
       /\ UNCHANGED <<hbVars, missed, comeback, concVars>>
    \/ /\ nPolls > 0
       /\ nPolls < ChurnPolls
       /\ \E gone \in SUBSET DOMAIN table.procs :
            /\ Cardinality(gone) <= 1
            /\ \E boots \in [DOMAIN table.procs \ gone -> BootTimes] :
                  GetProcesses(Survivors(table, gone, boots), 5000)
       /\ before' = poll
       /\ UNCHANGED <<hbVars, missed, comeback, concVars>>
SpecChurn == InitChurn /\ [][NextChurn]_vars

-----------------------------------------------------------------------------
(* Concurrent polls: the driver goroutine and the /api/processes handlers *)

\* The goroutines that call GetProcesses: the driver of main (RecordHistory,
\* CheckAlerts) and two requests to /api/processes.
Pollers == {"driver", "http1", "http2"}

\* /proc as the concurrent polls find it.
ConcTables ==
    {EmptyTable, ReadDirFails}
    \cup {[ok |-> TRUE, procs |-> f] :
            f \in {[pid \in S |-> Entry(CommClaude, Cwd(<<"/", "a", "proj">>),
                                        st, StatmOf(25600))] :
                      S \in {{2}, {2, 10}},
                      st \in {Stat(600, 400, 150), Stat(700, 450, 150)}}}

NoLocal ==
    [tbl |-> EmptyTable, at |-> 0, since |-> 0, elapsed |-> RatInt(0),
     prevRead |-> EmptyMap, err |-> FALSE, processes |-> <<>>]

\* Faulty variant: a Lock that does not wait.
CanLockAlways(m) == TRUE

\* sync.Mutex.Lock returns once the mutex is unlocked.
CanLock(m) == m = "free"

\* Line 48: pm.mu.Lock().
PollLock(g) ==
    /\ pc[g] = "idle"
    /\ nPolls < MaxPolls
    /\ CanLock(mu)
    /\ mu' = g
    /\ pc' = [pc EXCEPT ![g] = "listing"]
    /\ nPolls' = nPolls + 1
    /\ local' = [local EXCEPT ![g] = NoLocal]
    /\ UNCHANGED <<prevCPUTimes, prevSample, now, table, poll, log>>

\* Lines 51-58: os.ReadDir, time.Now() and the read of pm.prevSample.
PollList(g, tbl, gap) ==
    /\ pc[g] = "listing"
    /\ now' = now + gap
    /\ table' = tbl
    /\ local' = [local EXCEPT ![g] =
                    [NoLocal EXCEPT !.tbl = tbl, !.at = now', !.since = prevSample,
                                    !.elapsed = Elapsed(now', prevSample),
                                    !.err = ReadDirFailed(tbl)]]
    /\ pc' = [pc EXCEPT ![g] = IF ReadDirFailed(tbl) THEN "unlocking" ELSE "sampling"]
    /\ UNCHANGED <<prevCPUTimes, prevSample, poll, nPolls, mu, log>>

\* Lines 60-146: both passes; the second one reads pm.prevCPUTimes.
PollSample(g) ==
    /\ pc[g] = "sampling"
    /\ \E sorted \in SortOutcomes(FirstPass(local[g].tbl.procs)) :
          local' = [local EXCEPT
                      ![g].prevRead = prevCPUTimes,
                      ![g].processes = SecondPass(sorted, 1, <<>>, <<>>,
                                                  prevCPUTimes, local[g].elapsed)]
    /\ pc' = [pc EXCEPT ![g] = "storing"]
    /\ UNCHANGED <<prevCPUTimes, prevSample, now, table, poll, nPolls, mu, log>>

\* Lines 148-157: the map and the timestamp are replaced.
PollStore(g) ==
    /\ pc[g] = "storing"
    /\ prevCPUTimes' = NextPrev(prevCPUTimes, CurrentCPUTimes(local[g].tbl.procs))
    /\ prevSample' = local[g].at
    /\ pc' = [pc EXCEPT ![g] = "unlocking"]
    /\ UNCHANGED <<now, table, poll, nPolls, mu, local, log>>

\* Line 49, the deferred pm.mu.Unlock(), and the return.
PollUnlock(g) ==
    /\ pc[g] = "unlocking"
    /\ mu' = "free"
    /\ poll' = [called |-> TRUE, err |-> local[g].err,
                processes |-> local[g].processes,
                prevBefore |-> local[g].prevRead, elapsed |-> local[g].elapsed,
                since |-> local[g].since, at |-> local[g].at]
    /\ log' = Append(log, [tbl |-> local[g].tbl, at |-> local[g].at,
                           err |-> local[g].err, processes |-> local[g].processes])
    /\ pc' = [pc EXCEPT ![g] = "idle"]
    /\ UNCHANGED <<prevCPUTimes, prevSample, now, table, nPolls, local>>

InitPolls ==
    /\ InitHB /\ InitPM /\ table = EmptyTable
    /\ pc = [g \in Pollers |-> "idle"]
    /\ mu = "free"
    /\ rw = FreeRW
    /\ local = [g \in Pollers |-> NoLocal]
    /\ log = <<>>

NextPolls ==
    \E g \in Pollers :
        \/ PollLock(g) /\ UNCHANGED <<hbVars, histVars, rw>>
        \/ \E tbl \in ConcTables, gap \in {5000} :
              PollList(g, tbl, gap) /\ UNCHANGED <<hbVars, histVars, rw>>
        \/ PollSample(g) /\ UNCHANGED <<hbVars, histVars, rw>>
        \/ PollStore(g) /\ UNCHANGED <<hbVars, histVars, rw>>
        \/ PollUnlock(g) /\ UNCHANGED <<hbVars, histVars, rw>>
SpecPolls == InitPolls /\ [][NextPolls]_vars

-----------------------------------------------------------------------------
(* The HistoryBuffer under concurrent callers *)

\* The goroutines that write the buffer (the driver Adds, in RecordHistory;
\* another one Clears) and those that read it (GetAll, GetLast, as
\* /api/history requests do).
Writers == {"driver", "admin"}
Readers == {"http1", "http2"}

\* The point the k-th Add passes: its Timestamp is k.
StampedPoint(k) == [Timestamp |-> k, Temperature |-> 0, Processes |-> <<>>]

NoCall == [op |-> "none", n |-> 0, point |-> ZeroPoint, points |-> <<>>]

\* sync.RWMutex.Lock returns once there is no writer and no reader.
CanWLock(l) == l.writer = "free" /\ l.readers = {}

\* Faulty variant: an RLock that does not wait for a writer.
CanRLockAlways(l) == TRUE

\* sync.RWMutex.RLock returns once there is no writer.
CanRLock(l) == l.writer = "free"

\* Add, line 49: hb.mu.Lock(). The clock gives the point its Timestamp.
AddLock(g) ==
    /\ pc[g] = "idle"
    /\ now < MaxSamples + ExtraAdds
    /\ CanWLock(rw)
    /\ rw' = [rw EXCEPT !.writer = g]
    /\ now' = now + 1
    /\ local' = [local EXCEPT ![g] = [NoCall EXCEPT !.op = "Add",
                                                   !.point = StampedPoint(now')]]
    /\ pc' = [pc EXCEPT ![g] = "add_data"]
    /\ UNCHANGED <<data, head, count, added, everCleared>>

\* Add, line 52: hb.data[hb.head] = point.
AddData(g) ==
    /\ pc[g] = "add_data"
    /\ data' = [data EXCEPT ![head] = local[g].point]
    /\ pc' = [pc EXCEPT ![g] = "add_head"]
    /\ UNCHANGED <<head, count, added, everCleared, rw, local, now>>

\* Add, line 53: the cursor advances.
AddHeadStep(g) ==
    /\ pc[g] = "add_head"
    /\ head' = AddHead(head)
    /\ pc' = [pc EXCEPT ![g] = "add_count"]
    /\ UNCHANGED <<data, count, added, everCleared, rw, local, now>>

\* Add, lines 54-56: the count grows up to the capacity.
AddCountStep(g) ==
    /\ pc[g] = "add_count"
    /\ count' = AddCount(count)
    /\ pc' = [pc EXCEPT ![g] = "add_unlock"]
    /\ UNCHANGED <<data, head, added, everCleared, rw, local, now>>

\* Add, line 50: the deferred Unlock; the Add has taken effect.
AddUnlock(g) ==
    /\ pc[g] = "add_unlock"
    /\ rw' = [rw EXCEPT !.writer = "free"]
    /\ added' = Append(added, local[g].point)
    /\ local' = [local EXCEPT ![g] = NoCall]
    /\ pc' = [pc EXCEPT ![g] = "idle"]
    /\ UNCHANGED <<data, head, count, everCleared, now>>

\* Clear, line 95: hb.mu.Lock().
ClearLock(g) ==
    /\ pc[g] = "idle"
    /\ CanWLock(rw)
    /\ rw' = [rw EXCEPT !.writer = g]
    /\ local' = [local EXCEPT ![g] = [NoCall EXCEPT !.op = "Clear"]]
    /\ pc' = [pc EXCEPT ![g] = "clear_count"]
    /\ UNCHANGED <<data, head, count, added, everCleared, now>>

\* Clear, line 97: hb.count = 0.
ClearCount(g) ==
    /\ pc[g] = "clear_count"
    /\ count' = 0
    /\ pc' = [pc EXCEPT ![g] = "clear_head"]
    /\ UNCHANGED <<data, head, added, everCleared, rw, local, now>>

\* Clear, line 98: hb.head = 0.
ClearHead(g) ==
    /\ pc[g] = "clear_head"
    /\ head' = 0
    /\ pc' = [pc EXCEPT ![g] = "clear_unlock"]
    /\ UNCHANGED <<data, count, added, everCleared, rw, local, now>>

\* Clear, line 96: the deferred Unlock; the Clear has taken effect.
ClearUnlock(g) ==
    /\ pc[g] = "clear_unlock"
    /\ rw' = [rw EXCEPT !.writer = "free"]
    /\ added' = <<>>
    /\ everCleared' = TRUE
    /\ local' = [local EXCEPT ![g] = NoCall]
    /\ pc' = [pc EXCEPT ![g] = "idle"]
    /\ UNCHANGED <<data, head, count, now>>

\* GetAll, line 61: hb.mu.RLock(), called by GetAll itself (op "GetAll")
\* or through GetLast(n) (op "GetLast").
ReadLock(g, op, n) ==
    /\ pc[g] = "idle"
    /\ CanRLock(rw)
    /\ rw' = [rw EXCEPT !.readers = @ \cup {g}]
    /\ local' = [local EXCEPT ![g] = [NoCall EXCEPT !.op = op, !.n = n]]
    /\ pc' = [pc EXCEPT ![g] = "read_copy"]
    /\ UNCHANGED <<data, head, count, added, everCleared, now>>

\* GetAll, lines 64-81: the count is read and the points are copied.
ReadCopy(g) ==
    /\ pc[g] = "read_copy"
    /\ local' = [local EXCEPT ![g].points = GetAll(data, head, count)]
    /\ pc' = [pc EXCEPT ![g] = "read_unlock"]
    /\ UNCHANGED <<data, head, count, added, everCleared, rw, now>>

\* GetAll, line 62: the deferred RUnlock; GetLast then keeps the tail of
\* the copy, and the call returns.
ReadUnlock(g) ==
    /\ pc[g] = "read_unlock"
    /\ rw' = [rw EXCEPT !.readers = @ \ {g}]
    /\ ret' = [op |-> local[g].op, n |-> local[g].n,
               points |-> IF local[g].op = "GetLast"
                          THEN GetLast(local[g].points, local[g].n)
                          ELSE local[g].points,
               num |-> 0]
    /\ prevRet' = ret
    /\ local' = [local EXCEPT ![g] = NoCall]
    /\ pc' = [pc EXCEPT ![g] = "idle"]
    /\ UNCHANGED <<data, head, count, added, everCleared, now>>

InitRW ==
    /\ InitHB /\ InitPM /\ table = EmptyTable
    /\ pc = [g \in Writers \cup Readers |-> "idle"]
    /\ mu = "free"
    /\ rw = FreeRW
    /\ local = [g \in Writers \cup Readers |-> NoCall]
    /\ log = <<>>

\* What the steps of the buffer's callers leave alone.
rwFrame ==
    <<prevCPUTimes, prevSample, table, poll, nPolls, histVars, mu, log>>

NextRW ==
    \/ \E g \in {"driver"} :
          \/ AddLock(g) /\ UNCHANGED <<ret, prevRet, rwFrame>>
          \/ AddData(g) /\ UNCHANGED <<ret, prevRet, rwFrame>>
          \/ AddHeadStep(g) /\ UNCHANGED <<ret, prevRet, rwFrame>>
          \/ AddCountStep(g) /\ UNCHANGED <<ret, prevRet, rwFrame>>
          \/ AddUnlock(g) /\ UNCHANGED <<ret, prevRet, rwFrame>>
    \/ \E g \in {"admin"} :
          \/ ClearLock(g) /\ UNCHANGED <<ret, prevRet, rwFrame>>
          \/ ClearCount(g) /\ UNCHANGED <<ret, prevRet, rwFrame>>
          \/ ClearHead(g) /\ UNCHANGED <<ret, prevRet, rwFrame>>
          \/ ClearUnlock(g) /\ UNCHANGED <<ret, prevRet, rwFrame>>
    \/ \E g \in Readers :
          \/ ReadLock(g, "GetAll", 0) /\ UNCHANGED <<ret, prevRet, rwFrame>>
          \/ \E n \in {2} : ReadLock(g, "GetLast", n) /\ UNCHANGED <<ret, prevRet, rwFrame>>
          \/ ReadCopy(g) /\ UNCHANGED <<ret, prevRet, rwFrame>>
          \/ ReadUnlock(g) /\ UNCHANGED rwFrame
SpecRW == InitRW /\ [][NextRW]_vars

-----------------------------------------------------------------------------
(* The periodic driver: RecordHistory and CheckAlerts, beside the handlers *)

\* GetMainTemperature: a reading, or 0 when there is none.
Temperatures == {0, 55}

\* Faulty variant: the snapshots are collected newest first.
SnapshotsNewestFirst(processes) ==
    [i \in 1..Len(processes) |->
        LET p == processes[Len(processes) + 1 - i]
        IN  [PID |-> p.PID, Name |-> p.Name,
             CPUPercent |-> p.CPUPercent, MemoryMB |-> p.MemoryMB]]

\* RecordHistory, lines 215-223: one ProcessSnapshot per process, appended
\* in the order of the poll's result.
Snapshots(processes) ==
    [i \in 1..Len(processes) |->
        [PID |-> processes[i].PID, Name |-> processes[i].Name,
         CPUPercent |-> processes[i].CPUPercent, MemoryMB |-> processes[i].MemoryMB]]

NoDriverLocal == [err |-> FALSE, processes |-> <<>>]

\* RecordHistory, lines 210-213: the poll; on an error it returns at once.
\* The driver is at from; it goes to onErr after an error, else to onOk.
RecordHistoryPoll(from, onErr, onOk) ==
    /\ pc["driver"] = from
    /\ \E tbl \in ConcTables, gap \in {5000} : GetProcesses(tbl, gap)
    /\ local' = [local EXCEPT !["driver"] =
                    [err |-> poll'.err, processes |-> poll'.processes]]
    /\ pc' = [pc EXCEPT !["driver"] = IF poll'.err THEN onErr ELSE onOk]
    /\ log' = IF poll'.err
              THEN Append(log, [kind |-> "RecordHistory", err |-> TRUE,
                                processes |-> <<>>])
              ELSE log
    /\ UNCHANGED <<hbVars, histVars, mu, rw>>

\* RecordHistory, lines 215-232: the snapshots, the point and history.Add.
RecordHistoryAdd(from, to, temp) ==
    /\ pc["driver"] = from
    /\ Add([Timestamp |-> now \div 1000, Temperature |-> temp,
            Processes |-> Snapshots(local["driver"].processes)])
    /\ log' = Append(log, [kind |-> "RecordHistory", err |-> FALSE,
                           processes |-> local["driver"].processes])
    /\ local' = [local EXCEPT !["driver"] = NoDriverLocal]
    /\ pc' = [pc EXCEPT !["driver"] = to]
    /\ UNCHANGED <<pmVars, histVars, mu, rw>>

\* main, line 55: the initial sample.
StartUp == RecordHistoryPoll("start", "waiting", "start_add")
StartUpAdd(temp) == RecordHistoryAdd("start_add", "waiting", temp)

\* main, lines 57-58: a tick is received and RecordHistory is called.
Tick == RecordHistoryPoll("waiting", "alerts", "tick_add")
TickAdd(temp) == RecordHistoryAdd("tick_add", "alerts", temp)

\* main, line 61, CheckAlerts: one more poll unless alerts are disabled,
\* and the loop waits for the next tick.
CheckAlerts(enabled) ==
    /\ pc["driver"] = "alerts"
    /\ IF enabled
       THEN \E tbl \in ConcTables, gap \in {50} : GetProcesses(tbl, gap)
       ELSE UNCHANGED pmVars
    /\ log' = Append(log, [kind |-> "CheckAlerts", err |-> FALSE, processes |-> <<>>])
    /\ pc' = [pc EXCEPT !["driver"] = "waiting"]
    /\ UNCHANGED <<hbVars, histVars, mu, rw, local>>

\* handleProcesses: a request polls, at any time.
HandleProcesses ==
    /\ \E tbl \in ConcTables, gap \in {50} : GetProcesses(tbl, gap)
    /\ UNCHANGED <<hbVars, histVars, concVars>>

\* handleHistory: a request reads the history, at any time.
HandleHistory ==
    /\ CallGetAll
    /\ UNCHANGED <<pmVars, histVars, concVars>>

InitDriver ==
    /\ InitHB /\ InitPM /\ table = EmptyTable
    /\ pc = [g \in {"driver"} |-> "start"]
    /\ mu = "free"
    /\ rw = FreeRW
    /\ local = [g \in {"driver"} |-> NoDriverLocal]
    /\ log = <<>>

NextDriver ==
    \/ StartUp
    \/ \E temp \in Temperatures : StartUpAdd(temp)
    \/ Tick
    \/ \E temp \in Temperatures : TickAdd(temp)
    \/ \E enabled \in BOOLEAN : CheckAlerts(enabled)
    \/ HandleProcesses
    \/ HandleHistory
SpecDriver == InitDriver /\ [][NextDriver]_vars

-----------------------------------------------------------------------------
(* Properties of the HistoryBuffer (checked under SpecHB) *)

\* C1: after k Adds on a new buffer, with no Clear, GetAll returns exactly
\* the last min(k, MaxSamples) added points, oldest first: all of them after
\* MaxSamples Adds, all but the first after MaxSamples + 1 Adds.
C1_GetAllLastAdded ==
    ~everCleared =>
        /\ GetAll(data, head, count) = LastN(added, Min(Len(added), MaxSamples))
        /\ ret.op = "GetAll" =>
               /\ ret.points = LastN(added, Min(Len(added), MaxSamples))
               /\ Len(added) = MaxSamples => ret.points = added
               /\ Len(added) = MaxSamples + 1 => ret.points = Tail(added)

\* C1 witness: GetAll has returned after MaxSamples + 1 Adds of points that
\* are not all equal, and its result starts at the second point added.
C1_Witness ==
    /\ ~everCleared
    /\ Len(added) = MaxSamples + 1
    /\ added[1] # added[2]
    /\ ret.op = "GetAll"
    /\ Len(ret.points) = MaxSamples
    /\ ret.points[1] = added[2]

\* C2: in every state 0 <= count <= MaxSamples, and count is the smaller of
\* MaxSamples and the number of Adds since the last Clear; Count returns it.
C2_CountBounded ==
    /\ 0 <= count
    /\ count <= MaxSamples
    /\ count = Min(Len(added), MaxSamples)
    /\ ret.op = "Count" => ret.num = Min(Len(added), MaxSamples)

\* C2 witness: after a Clear, more than MaxSamples Adds, and Count returned
\* MaxSamples.
C2_Witness ==
    /\ everCleared
    /\ Len(added) > MaxSamples
    /\ ret.op = "Count"
    /\ ret.num = MaxSamples

\* C3: GetLast(n), n >= 0, returns exactly min(n, count) points: the most
\* recent ones, in chronological order (the tail of what GetAll returns).
C3_GetLastTail ==
    ret.op = "GetLast" =>
        /\ Len(ret.points) = Min(ret.n, count)
        /\ ret.points = LastN(added, Min(ret.n, Min(Len(added), MaxSamples)))
        /\ \A i \in 1..Len(ret.points) :
               ret.points[i] =
                   GetAll(data, head, count)[count - Len(ret.points) + i]

\* C3 witness: GetLast was asked for more points than the buffer holds and
\* returned the count > 1 points it holds, which are not all equal.
C3_Witness ==
    /\ ret.op = "GetLast"
    /\ ret.n > count
    /\ count > 1
    /\ Len(ret.points) = count
    /\ ret.points[1] # ret.points[count]

-----------------------------------------------------------------------------
(* Properties of the CPU estimator (checked under SpecCPU) *)

\* The last poll returned a list (os.ReadDir succeeded).
PollOK == poll.called /\ ~poll.err

\* The counters the last poll read for pid, and those kept from before it.
ReadCounters(pid) == getCPUTime(table.procs[pid])
TicksOf(ct) == ct.utime + ct.stime

\* The change of user+kernel ticks of pid over the last poll, as an integer.
TickDelta(pid) == TicksOf(ReadCounters(pid)) - TicksOf(poll.prevBefore[pid])

\* Milliseconds between the last two polls, raised to at least 100.
FlooredGap == IF poll.at - poll.since < 100 THEN 100 ELSE poll.at - poll.since

\* C4: a process id that had no counter pair stored from the previous poll
\* is reported with CPU% = 0, whatever its counters are.
C4_FirstObservationZero ==
    PollOK =>
        \A i \in 1..Len(poll.processes) :
            poll.processes[i].PID \notin DOMAIN poll.prevBefore
                => poll.processes[i].CPUPercent = <<0, 1>>

\* C4 witness: a poll that already tracked another pid returned a pid it
\* sees for the first time, with non-zero counters, at CPU% 0.
C4_Witness ==
    /\ PollOK
    /\ poll.prevBefore # EmptyMap
    /\ \E i \in 1..Len(poll.processes) :
          /\ poll.processes[i].PID \notin DOMAIN poll.prevBefore
          /\ TicksOf(ReadCounters(poll.processes[i].PID)) > 0
          /\ poll.processes[i].CPUPercent = <<0, 1>>

\* C5: every CPU% a poll returns lies in [0, 100]; when the counters did not
\* fall and ticks / 100 / elapsed * 100 exceeds 100, it is exactly 100.
C5_PercentInRange ==
    PollOK =>
        \A i \in 1..Len(poll.processes) :
            LET p == poll.processes[i].CPUPercent
                pid == poll.processes[i].PID
            IN  /\ p[2] > 0
                /\ 0 <= p[1]
                /\ p[1] <= 100 * p[2]
                /\ (/\ pid \in DOMAIN poll.prevBefore
                    /\ TickDelta(pid) >= 0
                    /\ TickDelta(pid) * 1000 * 100 > 100 * 100 * FlooredGap)
                   => p = <<100, 1>>

\* C5 witness: counters that rose by 150 ticks within a gap under 0.1 s
\* (1500% by the tick math) are reported as exactly 100.
C5_Witness ==
    /\ PollOK
    /\ poll.at - poll.since < 100
    /\ \E i \in 1..Len(poll.processes) :
          /\ poll.processes[i].PID \in DOMAIN poll.prevBefore
          /\ TickDelta(poll.processes[i].PID) = 150
          /\ poll.processes[i].CPUPercent = <<100, 1>>

\* C6: when the current user+kernel ticks of a tracked process are lower
\* than the stored previous ticks, its CPU% is reported as 0.
C6_NegativeDeltaZero ==
    PollOK =>
        \A i \in 1..Len(poll.processes) :
            LET pid == poll.processes[i].PID
            IN  (pid \in DOMAIN poll.prevBefore /\ TickDelta(pid) < 0)
                    => poll.processes[i].CPUPercent = <<0, 1>>

\* C7: for a tracked process the reported CPU% is
\* ((curUser - prevUser) + (curStime - prevStime)) / 100 / elapsed * 100,
\* clamped to [0, 100], elapsed being the gap since the previous poll raised
\* to at least 0.1 s.
C7_PercentFormula ==
    PollOK =>
        \A i \in 1..Len(poll.processes) :
            LET pid == poll.processes[i].PID
                p == poll.processes[i].CPUPercent
                d == (ReadCounters(pid).utime - poll.prevBefore[pid].utime)
                     + (ReadCounters(pid).stime - poll.prevBefore[pid].stime)
            IN  pid \in DOMAIN poll.prevBefore =>
                    IF d < 0 THEN p = <<0, 1>>
                    ELSE IF d * 1000 > 100 * FlooredGap THEN p = <<100, 1>>
                    ELSE p[1] * FlooredGap = d * 1000 * p[2]

\* C8: after a successful poll the stored map has exactly the returned pids
\* as keys, each with the counters read in that poll, and the stored
\* timestamp is that poll's.
C8_MapReplaced ==
    PollOK =>
        /\ DOMAIN prevCPUTimes =
               {poll.processes[i].PID : i \in 1..Len(poll.processes)}
        /\ \A pid \in DOMAIN prevCPUTimes : prevCPUTimes[pid] = ReadCounters(pid)
        /\ prevSample = poll.at

\* C8 witness: a poll dropped a pid it had tracked and added a pid it had
\* not, at a later time than the previous poll.
C8_Witness ==
    /\ PollOK
    /\ DOMAIN poll.prevBefore \ DOMAIN prevCPUTimes # {}
    /\ DOMAIN prevCPUTimes \ DOMAIN poll.prevBefore # {}
    /\ prevSample = poll.at
    /\ poll.at > poll.since

-----------------------------------------------------------------------------
(* Properties of the naming (checked under SpecNaming) *)

\* The base name of the i-th returned process, from the /proc content: the
\* last segment of its working directory, or "claude" when unreadable.
BaseOf(i) ==
    LET e == table.procs[poll.processes[i].PID]
    IN  IF e.cwd.ok THEN e.cwd.val[Len(e.cwd.val)] ELSE "claude"

\* How many of the first i returned processes share the i-th one's base name.
Occurrence(i) == Cardinality({j \in 1..i : BaseOf(j) = BaseOf(i)})

\* C9: the returned processes are in start-time order; the first with a
\* base name keeps it, the N-th one is named "<base> (2nd)", "<base> (3rd)",
\* "<base> (Nth)" for N >= 4.
C9_OrdinalNames ==
    PollOK =>
        /\ \A i, j \in 1..Len(poll.processes) :
               i < j => poll.processes[i].StartTime <= poll.processes[j].StartTime
        /\ \A i \in 1..Len(poll.processes) :
               poll.processes[i].Name =
                   CASE Occurrence(i) = 1 -> BaseOf(i)
                     [] Occurrence(i) = 2 -> BaseOf(i) \o " (2nd)"
                     [] Occurrence(i) = 3 -> BaseOf(i) \o " (3rd)"
                     [] OTHER -> BaseOf(i) \o " (" \o ToString(Occurrence(i)) \o "th)"

\* C9 witness: four processes share the base name proj, under two different
\* parent directories, and are named proj, proj (2nd), proj (3rd), proj (4th).
C9_Witness ==
    /\ PollOK
    /\ Len(poll.processes) = 4
    /\ poll.processes[1].Name = "proj"
    /\ poll.processes[2].Name = "proj (2nd)"
    /\ poll.processes[3].Name = "proj (3rd)"
    /\ poll.processes[4].Name = "proj (4th)"
    /\ poll.processes[1].WorkingDir # poll.processes[2].WorkingDir
    /\ poll.processes[1].StartTime < poll.processes[4].StartTime

\* C10: the returned list is ascending by start time, and processes with
\* equal start times are in ascending order of process id.
C10_SortedByStartThenPid ==
    PollOK =>
        \A i, j \in 1..Len(poll.processes) :
            i < j =>
                \/ poll.processes[i].StartTime < poll.processes[j].StartTime
                \/ /\ poll.processes[i].StartTime = poll.processes[j].StartTime
                   /\ poll.processes[i].PID < poll.processes[j].PID

\* What a poll result says of each process: its name, and the triple of
\* pid, working directory and start time it was observed with.
NamesOf(res) == {<<res.processes[i].PID, res.processes[i].Name>> :
                    i \in 1..Len(res.processes)}
TriplesOf(res) ==
    {<<res.processes[i].PID, res.processes[i].WorkingDir,
       res.processes[i].StartTime>> : i \in 1..Len(res.processes)}
PidsOf(res) == {res.processes[i].PID : i \in 1..Len(res.processes)}

\* Two polls in a row both returned a list.
TwoPollsOK == before.called /\ ~before.err /\ PollOK

-----------------------------------------------------------------------------
(* Error handling of a poll (checked under SpecCPU) *)

\* The pids of the table whose comm is readable and holds "claude" and the
\* newline the kernel ends it with.
Matching(tbl) == {pid \in DOMAIN tbl.procs : tbl.procs[pid].comm = CommClaude}

\* C12: a poll returns an error exactly when /proc cannot be listed, and
\* then it returns no process list at all; unreadable processes alone never
\* make a poll fail.
C12_ErrorOnlyOnReadDir ==
    poll.called =>
        /\ poll.err <=> ~table.ok
        /\ poll.err => poll.processes = <<>>
        /\ ~poll.err => PidsOf(poll) = Matching(table)

\* C12 witness: /proc could not be listed while the estimator was tracking
\* a process from an earlier poll; the poll returned an error and no list.
C12_Witness ==
    /\ poll.called /\ poll.err /\ ~table.ok
    /\ nPolls >= 2
    /\ poll.prevBefore # EmptyMap
    /\ poll.processes = <<>>

\* C12 witness of the converse: a poll over a table with an unreadable
\* process succeeded.
C12_UnreadableNoError ==
    /\ PollOK
    /\ \E pid \in DOMAIN table.procs : ~table.procs[pid].comm.ok

\* The process returned for pid by the last poll.
Returned(pid) ==
    poll.processes[CHOOSE i \in 1..Len(poll.processes) : poll.processes[i].PID = pid]

C13_UnreadableCommSkipped ==
    /\ PollOK
    /\ \E pid \in DOMAIN table.procs, other \in DOMAIN table.procs :
          /\ ~table.procs[other].comm.ok
          /\ table.procs[pid].comm = CommClaude /\ table.procs[pid].stat.ok
          /\ PidsOf(poll) = {pid}

-----------------------------------------------------------------------------
(* Reads of the history (checked under SpecHB) *)

Reads == {"GetAll", "GetLast", "Count"}

\* C14: reading the history does not change it. A step in which GetAll,
\* GetLast or Count returns leaves data, head and count as they were, and a
\* GetAll that directly follows a GetAll, with no Add or Clear in between,
\* returns the same sequence.
C14_ReadsLeaveHistory ==
    [][/\ ret'.op \in Reads => UNCHANGED <<data, head, count>>
       /\ (ret.op = "GetAll" /\ ret'.op = "GetAll") => ret'.points = ret.points]_vars

\* C14 witness: two GetAll calls in a row on a buffer that has wrapped, both
\* returning the same MaxSamples points, which are not all equal.
C14_Witness ==
    /\ prevRet.op = "GetAll"
    /\ ret.op = "GetAll"
    /\ Len(added) > MaxSamples
    /\ Len(ret.points) = MaxSamples
    /\ ret.points[1] # ret.points[2]
    /\ ret.points = prevRet.points
    /\ ret.points = GetAll(data, head, count)

-----------------------------------------------------------------------------
(* Clear (checked under SpecHB) *)

\* C19: Clear sets count and head to zero and keeps the storage. Right after
\* a Clear, GetAll is empty and Count is 0; after j further Adds GetAll is
\* exactly the last min(j, MaxSamples) points added since the Clear, in the
\* order they were added, so no point from before the Clear is returned.
C19_ClearResets ==
    /\ [][(everCleared' /\ added' = <<>>) =>
              /\ count' = 0 /\ head' = 0 /\ data' = data
              /\ GetAll(data', head', count') = <<>>]_vars
    /\ [](everCleared =>
              /\ GetAll(data, head, count) = LastN(added, Min(Len(added), MaxSamples))
              /\ count = Min(Len(added), MaxSamples)
              /\ added = <<>> => (head = 0 /\ count = 0)
              /\ ret.op = "GetAll" =>
                     ret.points = LastN(added, Min(Len(added), MaxSamples))
              /\ ret.op = "Count" => ret.num = Min(Len(added), MaxSamples))

\* C19 witness: the buffer was full when it was cleared and has taken fewer
\* than MaxSamples Adds since, so a point from before the Clear is still in
\* the storage; GetAll has returned exactly the points added since the Clear.
C19_Witness ==
    /\ everCleared
    /\ 0 < count /\ count < MaxSamples
    /\ data[MaxSamples - 1] # ZeroPoint
    /\ \A i \in 1..Len(added) : added[i] # data[MaxSamples - 1]
    /\ ret.op = "GetAll"
    /\ ret.points = added

\* C19 witness, second case: GetAll returned nothing right after a Clear of
\* a buffer that held points, which are still in the storage.
C19_EmptyAfterClear ==
    /\ everCleared /\ added = <<>>
    /\ data[0] # ZeroPoint
    /\ ret.op = "GetAll" /\ ret.points = <<>>

-----------------------------------------------------------------------------
(* A process that returns (checked under SpecReturn) *)

\* C18: a pid that was tracked, was not found by a later successful poll and
\* is found again by the last poll is a first observation there: the poll
\* that missed it pruned its entry, the map the returning poll read has no
\* entry for it, and its CPU% is 0. Its new counters are then recorded.
C18_ReturnIsFirstObservation ==
    /\ missed \cap DOMAIN prevCPUTimes = {}
    /\ PollOK =>
          \A pid \in comeback :
              /\ pid \in PidsOf(poll)
              /\ pid \notin DOMAIN poll.prevBefore
              /\ Returned(pid).CPUPercent = RatInt(0)
              /\ pid \in DOMAIN prevCPUTimes

\* C18 witness: in the third poll pid 10 is back with counters above zero
\* and is reported at 0 %, while pid 2, tracked throughout, is reported
\* above 0 % by the same poll.
C18_Witness ==
    /\ PollOK
    /\ nPolls = 3
    /\ comeback = {10}
    /\ PidsOf(poll) = {2, 10}
    /\ prevCPUTimes[10] = [utime |-> 700, stime |-> 450]
    /\ Returned(10).CPUPercent = RatInt(0)
    /\ RatLess(RatInt(0), Returned(2).CPUPercent)

-----------------------------------------------------------------------------
(* Names when a process exits (checked under SpecChurn) *)

\* The position of pid in a poll's result.
IndexIn(res, pid) ==
    CHOOSE i \in 1..Len(res.processes) : res.processes[i].PID = pid

\* The base name of a returned process, from its record.
BaseIn(res, pid) ==
    LET p == res.processes[IndexIn(res, pid)]
    IN  IF p.WorkingDir = <<>> THEN "claude" ELSE p.WorkingDir[Len(p.WorkingDir)]

\* The returned pids that have base name b.
GroupIn(res, b) == {pid \in PidsOf(res) : BaseIn(res, pid) = b}

\* The ordinal of pid among the returned processes with its base name.
OrdinalIn(res, pid) ==
    Cardinality({q \in GroupIn(res, BaseIn(res, pid)) :
                    IndexIn(res, q) <= IndexIn(res, pid)})

StartIn(res, pid) == res.processes[IndexIn(res, pid)].StartTime
NameIn(res, pid) == res.processes[IndexIn(res, pid)].Name

\* Between the two last polls the process first (and strictly earliest
\* started) of the two or more with base name b exited, and the others with
\* that base name are all still there, with no newcomer.
EarliestLeft(b, first) ==
    /\ TwoPollsOK
    /\ first \in GroupIn(before, b)
    /\ Cardinality(GroupIn(before, b)) >= 2
    /\ \A q \in GroupIn(before, b) \ {first} :
          StartIn(before, first) < StartIn(before, q)
    /\ first \notin PidsOf(poll)
    /\ GroupIn(poll, b) = GroupIn(before, b) \ {first}

\* C20: when the earliest-started of several processes sharing a base name
\* is absent from the next poll, every survivor with that base name has an
\* ordinal one lower than in the poll before, and the name of that ordinal.
C20_OrdinalsShiftDown ==
    \A b \in {"proj", "other"}, first \in ChurnPids :
        EarliestLeft(b, first) =>
            \A q \in GroupIn(poll, b) :
                /\ OrdinalIn(poll, q) = OrdinalIn(before, q) - 1
                /\ NameIn(poll, q) = DisplayName(b, OrdinalIn(before, q) - 1)

\* The same, for survivors whose reported start times are those of the poll
\* before: their order is kept and every ordinal drops by one.
C20_ShiftWhenStartTimesKept ==
    \A b \in {"proj", "other"}, first \in ChurnPids :
        (/\ EarliestLeft(b, first)
         /\ \A q \in GroupIn(poll, b) : StartIn(poll, q) = StartIn(before, q)) =>
            \A q \in GroupIn(poll, b) :
                /\ OrdinalIn(poll, q) = OrdinalIn(before, q) - 1
                /\ NameIn(poll, q) = DisplayName(b, OrdinalIn(before, q) - 1)

\* The case of C20_ShiftWhenStartTimesKept happens: pid 2 was proj, exited,
\* and the former proj (2nd) and proj (3rd) are now proj and proj (2nd).
C20_ShiftHappens ==
    /\ EarliestLeft("proj", 2)
    /\ GroupIn(before, "proj") = {2, 3, 10}
    /\ \A q \in {3, 10} : StartIn(poll, q) = StartIn(before, q)
    /\ \E q, r \in {3, 10} :
          /\ NameIn(before, q) = "proj (2nd)" /\ NameIn(poll, q) = "proj"
          /\ NameIn(before, r) = "proj (3rd)" /\ NameIn(poll, r) = "proj (2nd)"

-----------------------------------------------------------------------------
(* Concurrent polls (checked under SpecPolls) *)

\* The estimator state after the first k logged polls run one after the
\* other, each as a whole, from the state of a new ProcessMonitor.
RECURSIVE SerialState(_)
SerialState(k) ==
    IF k = 0 THEN [prev |-> EmptyMap, sample |-> 0]
    ELSE LET st == SerialState(k - 1)
             e  == log[k]
         IN  IF ~e.tbl.ok THEN st
             ELSE [prev |-> [pid \in Matching(e.tbl) |->
                               [utime |-> e.tbl.procs[pid].stat.utime,
                                stime |-> e.tbl.procs[pid].stat.stime]],
                   sample |-> e.at]

\* What the k-th logged poll returns when it runs as a whole on the state
\* left by the k - 1 polls before it (the tables here sort in one way).
SerialResult(k) ==
    LET st == SerialState(k - 1)
        e  == log[k]
    IN  IF ~e.tbl.ok THEN <<>>
        ELSE SecondPass(CHOOSE s \in SortOutcomes(FirstPass(e.tbl.procs)) : TRUE,
                        1, <<>>, <<>>, st.prev, Elapsed(e.at, st.sample))

InPoll(g) == pc[g] # "idle"

\* C15: polls exclude one another. At most one goroutine is inside
\* GetProcesses past the Lock; and the polls are equivalent to running them
\* whole, one after the other, in the order of their return: each returned
\* what that sequential run returns, and whenever no poll is running the
\* map and the timestamp are those the sequential run leaves.
C15_PollsSerializable ==
    /\ \A g, h \in Pollers : (InPoll(g) /\ InPoll(h)) => g = h
    /\ \A g \in Pollers : InPoll(g) => mu = g
    /\ \A k \in 1..Len(log) :
          /\ log[k].err = ~log[k].tbl.ok
          /\ log[k].processes = SerialResult(k)
    /\ (\A g \in Pollers : ~InPoll(g)) =>
          /\ prevCPUTimes = SerialState(Len(log)).prev
          /\ prevSample = SerialState(Len(log)).sample

\* C15 witness: three polls have returned; the second reports a CPU% above
\* 0 against the counters the first one left, and the third, reading the
\* same counters as the second, reports 0 against those the second left.
C15_Witness ==
    /\ Len(log) = 3
    /\ \A k \in 1..3 : ~log[k].err /\ log[k].processes # <<>>
    /\ RatLess(RatInt(0), log[2].processes[1].CPUPercent)
    /\ log[3].processes[1].CPUPercent = RatInt(0)
    /\ log[3].tbl = log[2].tbl
    /\ mu = "free"

\* C15 witness, contention: a goroutine is idle and wants to poll while
\* another holds the lock in the middle of its poll.
C15_Contention ==
    /\ pc["http1"] = "storing"
    /\ pc["driver"] = "idle"
    /\ mu = "http1"
    /\ nPolls < MaxPolls
    /\ Len(log) >= 1

-----------------------------------------------------------------------------
(* Reads concurrent with writes (checked under SpecRW) *)

\* The chronological content of the buffer: the points of the Adds that have
\* taken effect since the last Clear, the last MaxSamples of them at most.
Content == LastN(added, Min(Len(added), MaxSamples))

Writing(g) == pc[g] # "idle"
Reading(g) == pc[g] # "idle"

\* C16: a writer excludes every reader and every other writer, and a read
\* never sees a write half done: while a reader holds the lock the buffer
\* reads as the content left by the writes that have completed, and what it
\* copied (the tail of it for GetLast) is that content.
C16_NoPartialWrite ==
    /\ \A w \in Writers : Writing(w) =>
          /\ rw.writer = w
          /\ \A g \in (Writers \cup Readers) \ {w} : pc[g] = "idle"
    /\ \A r \in Readers : Reading(r) =>
          /\ r \in rw.readers
          /\ GetAll(data, head, count) = Content
          /\ pc[r] = "read_unlock" =>
                /\ local[r].points = Content
                /\ local[r].op = "GetLast" =>
                      GetLast(local[r].points, local[r].n) =
                          LastN(added, Min(local[r].n, Len(Content)))

\* C16 witness: both readers hold the read lock at once, on a buffer that
\* has wrapped; each has copied the MaxSamples latest points.
C16_Witness ==
    /\ rw.readers = Readers
    /\ Len(added) > MaxSamples
    /\ \A r \in Readers :
          /\ pc[r] = "read_unlock"
          /\ Len(local[r].points) = MaxSamples
          /\ local[r].points[1] = added[Len(added) - MaxSamples + 1]
          /\ local[r].points[MaxSamples] = added[Len(added)]

\* C16 witness, a writer waiting: a reader holds the lock on a full buffer
\* while a writer that could otherwise add is idle.
C16_WriterKeptOut ==
    /\ pc["http1"] = "read_copy"
    /\ count = MaxSamples
    /\ pc["driver"] = "idle"
    /\ now < MaxSamples + ExtraAdds
    /\ ~CanWLock(rw)

-----------------------------------------------------------------------------
(* RecordHistory and the driver (checked under SpecDriver) *)

IsRecord(e) == e.kind = "RecordHistory"
IsRecorded(e) == e.kind = "RecordHistory" /\ ~e.err

\* The driver's RecordHistory calls that returned after a successful poll.
Recorded == SelectSeq(log, IsRecorded)

\* C17: a RecordHistory call polls once, and when the poll succeeds it
\* appends one point, whose snapshots are the pid, name, CPU% and memory of
\* the poll's processes in the poll's order; a failed poll appends nothing.
\* The driver calls it first, then once per tick, each call (and the
\* CheckAlerts after it) ending before the next begins.
C17_OneSamplePerRecord ==
    /\ [][/\ (pc["driver"] \in {"start", "waiting"} /\ pc'["driver"] # pc["driver"]) =>
              /\ nPolls' = nPolls + 1
              /\ added' = added
              /\ local'["driver"].processes = poll'.processes
              /\ poll'.err <=> pc'["driver"] \notin {"start_add", "tick_add"}
          /\ (pc["driver"] \in {"start_add", "tick_add"} /\ pc'["driver"] # pc["driver"]) =>
              /\ nPolls' = nPolls
              /\ Len(added') = Len(added) + 1]_vars
    /\ [](/\ Len(added) = Len(Recorded)
          /\ \A k \in 1..Len(added) :
                LET ps == Recorded[k].processes
                    ss == added[k].Processes
                IN  /\ Len(ss) = Len(ps)
                    /\ \A i \in 1..Len(ps) :
                          /\ ss[i].PID = ps[i].PID
                          /\ ss[i].Name = ps[i].Name
                          /\ ss[i].CPUPercent = ps[i].CPUPercent
                          /\ ss[i].MemoryMB = ps[i].MemoryMB
          /\ \A k \in 1..Len(log) :
                /\ k = 1 => IsRecord(log[k])
                /\ k > 1 => (IsRecord(log[k]) <=> k % 2 = 0)
          /\ pc["driver"] = "start" => log = <<>>)

\* C17 witness: the start-up call and the call of the first tick have each
\* appended a point; the second point holds two snapshots in the order of
\* its poll, the first of them with a CPU% above 0, and a failed
\* RecordHistory in a later tick has appended nothing.
C17_Witness ==
    /\ Len(log) = 4
    /\ IsRecorded(log[1]) /\ IsRecorded(log[2]) /\ log[3].kind = "CheckAlerts"
    /\ IsRecord(log[4]) /\ log[4].err
    /\ Len(added) = 2
    /\ Len(added[2].Processes) = 2
    /\ added[2].Processes[1].PID = log[2].processes[1].PID
    /\ added[2].Processes[2].PID = log[2].processes[2].PID
    /\ RatLess(RatInt(0), added[2].Processes[1].CPUPercent)
    /\ added[1].Timestamp < added[2].Timestamp

-----------------------------------------------------------------------------
(* A failed enumeration (checked under SpecDriver) *)

\* C21: a poll that fails to list /proc leaves prevCPUTimes and prevSample
\* as they were, and the history's data, head and count too; a RecordHistory
\* whose poll failed returns without reaching history.Add.
C21_FailedPollChangesNothing ==
    /\ [][(nPolls' = nPolls + 1 /\ poll'.err) =>
              /\ prevCPUTimes' = prevCPUTimes
              /\ prevSample' = prevSample
              /\ UNCHANGED <<data, head, count, added>>
              /\ pc'["driver"] # pc["driver"] =>
                     pc'["driver"] \notin {"start_add", "tick_add"}]_vars
    /\ [](pc["driver"] \in {"start_add", "tick_add"} => ~local["driver"].err)

\* C21 witness: after a RecordHistory that added a point and left a process
\* tracked, the RecordHistory of the next tick failed to list /proc: the
\* map and the timestamp are those the failed poll found, from before it,
\* and the history still holds the one point.
C21_Witness ==
    /\ Len(log) = 2
    /\ IsRecorded(log[1])
    /\ IsRecord(log[2]) /\ log[2].err
    /\ poll.called /\ poll.err
    /\ prevCPUTimes # EmptyMap
    /\ prevCPUTimes = poll.prevBefore
    /\ prevSample = poll.since /\ prevSample < poll.at
    /\ Len(added) = 1 /\ count = 1 /\ head = 1
    /\ pc["driver"] = "alerts"

-----------------------------------------------------------------------------
(* Distinct names (checked under SpecSegments) *)

\* C22: the names in one poll's result are pairwise distinct, whatever the
\* working directories are.
C22_NamesDistinct ==
    PollOK =>
        \A i, j \in 1..Len(poll.processes) :
            i # j => poll.processes[i].Name # poll.processes[j].Name

\* The names are distinct when no working directory ends in a segment of
\* the form "<base> (2nd)": an unreadable working directory and one that
\* ends in "claude" count as the same base name.
C22_DistinctWithoutOrdinalSegment ==
    (PollOK /\ \A pid \in PidsOf(poll) : BaseIn(poll, pid) # "proj (2nd)") =>
        \A i, j \in 1..Len(poll.processes) :
            i # j => poll.processes[i].Name # poll.processes[j].Name

\* The case of "claude" happens: one process in a directory named claude,
\* one whose working directory cannot be read; they get different names.
C22_ClaudeSegmentDistinct ==
    /\ PollOK
    /\ Len(poll.processes) = 2
    /\ \E i, j \in 1..2 :
          /\ poll.processes[i].WorkingDir = <<"/", "d", "claude">>
          /\ poll.processes[j].WorkingDir = <<>>
    /\ {poll.processes[1].Name, poll.processes[2].Name} = {"claude", "claude (2nd)"}

-----------------------------------------------------------------------------
(* The write cursor (checked under SpecHB) *)

\* C23: in every state 0 <= head < MaxSamples and head is the number of
\* Adds since the last Clear modulo MaxSamples. While count < MaxSamples the
\* cursor equals count and slots 0..count-1 hold the points added, in
\* order; once full, the slots from the cursor on, circularly, hold the
\* last MaxSamples points added.
C23_HeadInvariant ==
    /\ 0 <= head
    /\ head < MaxSamples
    /\ head = Len(added) % MaxSamples
    /\ count < MaxSamples =>
          /\ head = count
          /\ count = Len(added)
          /\ \A i \in 0..(count - 1) : data[i] = added[i + 1]
    /\ count = MaxSamples =>
          \A i \in 0..(MaxSamples - 1) :
              data[(head + i) % MaxSamples] = added[Len(added) - MaxSamples + 1 + i]

\* C23 witness: cleared, then filled and wrapped: the cursor is past slot 0
\* and the slot before it holds the last point added.
C23_Witness ==
    /\ everCleared
    /\ Len(added) > MaxSamples
    /\ count = MaxSamples
    /\ head = Len(added) - MaxSamples
    /\ head > 0
    /\ data[head - 1] = added[Len(added)]
    /\ data[head - 1] # data[head]

\* C23 witness, a buffer partly filled after a Clear: the cursor equals the
\* count and the slot at the cursor still holds a point from before.
C23_PrefixOccupied ==
    /\ everCleared
    /\ 0 < count /\ count < MaxSamples
    /\ head = count
    /\ data[head] # ZeroPoint

=============================================================================
